---- MODULE Spec2Model ----
(***************************************************************************)
(* Turn-taking session engine of the AI group chat: Message, AIAgent,      *)
(* ChatSession (ai_group_chat.py) and the TerminalUI loop (terminal_ui.py).*)
(*                                                                         *)
(* Texts are sequences of strings: a human's input is the sequence of its  *)
(* characters (so that str.lower() and the exit-token test are computed),  *)
(* an f-string is the sequence of its pieces.                              *)
(***************************************************************************)
EXTENDS Integers, Sequences, FiniteSets, TLC

VARIABLES
    agents,     \* ChatSession.agents: the dict, as the sequence of its values in key order
    history,    \* ChatSession.history
    pc,         \* where the program is: setup, inside ChatSession.run, inside TerminalUI.run, done, crashed
    idx,        \* position of the for loop over agents.items() (0: before the first)
    turns,      \* suspension points passed in the loop: agent calls and human inputs
    now,        \* time.time()
    file,       \* contents of chat_history.json
    saves,      \* number of save_history invocations
    regs,       \* the add_agent calls so far: (name, class) in call order
    mode,       \* which loop runs the session: none, core (ChatSession.run), ui (TerminalUI.run)
    msgs,       \* number of add_message calls made by the embedding code before run
    call,       \* the process_message call in flight or last made: callee, incoming,
                \* request context, and how it ended
    contrib,    \* the message the previous automated agent of this round appended
    order,      \* registration numbers of the agents called in this round, in call order
    rendered,   \* the history as last drawn by TerminalUI.draw_messages
    loaded,     \* outcome of the last ChatSession.from_history
    human       \* the last event at a human-input suspension point

vars == <<agents, history, pc, idx, turns, now, file, saves, regs, mode, msgs,
          call, contrib, order, rendered, loaded, human>>

----------------------------------------------------------------------------
\* Bounds of the model

MaxRegs == 3
MaxSetupMsgs == 1
MaxPersistMsgs == 2
MaxTurns == 5
MaxNow == 2
MaxFileLen == 2

----------------------------------------------------------------------------
\* Message

\* timestamp: Optional[float] = None
NoTs == -1

\* A float is falsy exactly when it is 0; None is falsy.
Truthy(ts) == ts # NoTs /\ ts # 0

\* Message.__init__: self.timestamp = timestamp or time.time()
Message(sender, content, ts, clock) ==
    [sender |-> sender, content |-> content,
     timestamp |-> IF Truthy(ts) THEN ts ELSE clock]

\* to_dict as it would be if it left the timestamp out
to_dict_NoTimestamp(m) == [sender |-> m.sender, content |-> m.content]

\* Message.to_dict
to_dict(m) == [sender |-> m.sender, content |-> m.content, timestamp |-> m.timestamp]

\* A JSON object read from a file, and what a non-object element looks like.
JObject(d) == [type |-> "object", val |-> d]
JString(s) == [type |-> "string", val |-> [text |-> s]]

LoadError == [ok |-> FALSE]

\* from_dict as it would be with data.get("content", "") in place of data["content"]
from_dict_LenientContent(item, clock) ==
    IF item.type # "object" THEN LoadError
    ELSE IF "sender" \notin DOMAIN item.val THEN LoadError
    ELSE [ok |-> TRUE,
          msg |-> Message(item.val.sender,
                          IF "content" \in DOMAIN item.val THEN item.val.content ELSE <<>>,
                          IF "timestamp" \in DOMAIN item.val
                          THEN item.val.timestamp ELSE clock,
                          clock)]

\* Message.from_dict: data["sender"], data["content"] raise on a missing key (KeyError)
\* and on a str element (TypeError); data.get("timestamp", time.time())
from_dict(item, clock) ==
    IF item.type # "object" THEN LoadError
    ELSE IF "sender" \notin DOMAIN item.val THEN LoadError
    ELSE IF "content" \notin DOMAIN item.val THEN LoadError
    ELSE [ok |-> TRUE,
          msg |-> Message(item.val.sender, item.val.content,
                          IF "timestamp" \in DOMAIN item.val
                          THEN item.val.timestamp ELSE clock,
                          clock)]

----------------------------------------------------------------------------
\* The history file

Absent == [kind |-> "absent"]
NotJson == [kind |-> "text"]
JsonFile(type, items) == [kind |-> "json", type |-> type, items |-> items]

\* json.dump([msg.to_dict() for msg in self.history], f): an array of objects
dump(h) == JsonFile("array", [i \in 1..Len(h) |-> JObject(to_dict(h[i]))])

\* "for msg_data in history_data": a list yields its elements, a dict its keys,
\* a str its characters; a number is not iterable (TypeError).
Iterable(type) == type \in {"array", "object", "string"}

\* the loop of from_history: session.history.append(Message.from_dict(msg_data)),
\* an exception of from_dict leaving the loop and from_history
RECURSIVE LoadItems(_, _, _)
LoadItems(items, acc, clock) ==
    IF items = <<>> THEN [ok |-> TRUE, history |-> acc]
    ELSE LET r == from_dict(Head(items), clock)
         IN  IF ~r.ok THEN LoadError
             ELSE LoadItems(Tail(items), Append(acc, r.msg), clock)

\* ChatSession.from_history: FileNotFoundError is caught and the empty session
\* returned; json.load raises on text that is not JSON; any other exception
\* propagates to the caller.
from_history(f, clock) ==
    IF f.kind = "absent" THEN [ok |-> TRUE, history |-> <<>>]
    ELSE IF f.kind = "text" THEN LoadError
    ELSE IF ~Iterable(f.type) THEN LoadError
    ELSE LoadItems(f.items, <<>>, clock)

----------------------------------------------------------------------------
\* Texts

\* str.lower() on the characters the inputs of the model use
LowerChar(c) ==
    CASE c = "E" -> "e" [] c = "X" -> "x" [] c = "I" -> "i" [] c = "T" -> "t"
      [] c = "Q" -> "q" [] c = "U" -> "u" [] c = "B" -> "b" [] c = "Y" -> "y"
      [] OTHER -> c

Lower(text) == [i \in 1..Len(text) |-> LowerChar(text[i])]

\* ["exit", "quit", "bye"]
ExitTokens == {<<"e", "x", "i", "t">>, <<"q", "u", "i", "t">>, <<"b", "y", "e">>}

\* the exit test as it would be without .lower()
IsExit_CaseSensitive(text) == text \in ExitTokens

\* human_response.content.lower() in ["exit", "quit", "bye"]
IsExit(text) == Lower(text) \in ExitTokens

WelcomeText == <<"Welcome to the AI Group Chat! Type a message to start the conversation.">>
GoodbyeText == <<"Thank you for chatting with us! Goodbye.">>
\* f"{name} is thinking..."
ThinkingText(name) == <<name, " is thinking...">>
\* f"Error getting response from {name}: {str(e)}"
ErrorText(name, reason) == <<"Error getting response from ", name, ": ", reason>>

----------------------------------------------------------------------------
\* Agents

\* AIAgent.__init__: name and an empty context. kind is the class: "auto" an
\* automated agent (GeminiAgent, LlamaAgent, ...), "core_human" the HumanAgent of
\* ai_group_chat.py, "ui_human" the HumanAgent of terminal_ui.py. reg is the
\* number of the add_agent call that registered the object.
AIAgent(name, kind, reg) == [name |-> name, kind |-> kind, reg |-> reg, context |-> <<>>]

\* the isinstance test of ai_group_chat.py as it would be if no class passed it
IsHumanCore_Never(a) == FALSE

\* isinstance(agent, HumanAgent) inside ai_group_chat.py
IsHumanCore(a) == a.kind = "core_human"
\* isinstance(agent, HumanAgent) inside terminal_ui.py
IsHumanUI(a) == a.kind = "ui_human"

\* add_agent as it would be if a name registered again moved to the end of the dict
add_agent_MoveToEnd(ags, a) ==
    Append(SelectSeq(ags, LAMBDA x : x.name # a.name), a)

\* ChatSession.add_agent: self.agents[agent.name] = agent. Assigning to a key the
\* dict already holds replaces the value and keeps the key's position.
add_agent(ags, a) ==
    IF \E i \in 1..Len(ags) : ags[i].name = a.name
    THEN [i \in 1..Len(ags) |-> IF ags[i].name = a.name THEN a ELSE ags[i]]
    ELSE Append(ags, a)

\* add_message as it would be if it left the agents' contexts alone
UpdateContexts_None(ags, m) == ags

\* AIAgent.update_context for every agent of the session
UpdateContexts(ags, m) ==
    [i \in 1..Len(ags) |-> [ags[i] EXCEPT !.context = Append(@, m)]]

\* self.context[-10:]
ContextWindow == 10
LastN(s, n) == IF Len(s) <= n THEN s ELSE SubSeq(s, Len(s) - n + 1, Len(s))
RequestContext(a) == LastN(a.context, ContextWindow)

\* self.system_prompt
SystemPrompt == <<"system prompt">>

\* the role the provider gives to the agent's own turns: "model" for a
\* GeminiAgent, "assistant" for a LlamaAgent. The automated agent named A is a
\* GeminiAgent, every other one a LlamaAgent.
SelfRole(name) == IF name = "A" THEN "model" ELSE "assistant"

\* the role of a context message as it would be if every one were a user turn
Role_AllUser(name, sender) == "user"

\* role = "user" if ctx_msg.sender != self.name else "model" / "assistant"
Role(name, sender) == IF sender # name THEN "user" ELSE SelfRole(name)

\* f"{ctx_msg.sender}: {ctx_msg.content}"
Prefixed(m) == <<m.sender, ": ">> \o m.content

\* one entry of contents / messages
Entry(role, text) == [role |-> role, text |-> text]

\* process_message up to the provider call: the system prompt, the entries of
\* self.context[-10:], then the incoming message as a user turn
BuildRequest(a, m) ==
    LET ctx == RequestContext(a)
    IN  <<Entry("system", SystemPrompt)>>
            \o [i \in 1..Len(ctx) |-> Entry(Role(a.name, ctx[i].sender), Prefixed(ctx[i]))]
            \o <<Entry("user", Prefixed(m))>>

\* next((name for name, agent in agents.items() if isinstance(agent, HumanAgent)), "Human")
HumanNameCore(ags) ==
    IF \E i \in 1..Len(ags) : IsHumanCore(ags[i])
    THEN ags[CHOOSE i \in 1..Len(ags) :
                 IsHumanCore(ags[i]) /\ \A j \in 1..(i - 1) : ~IsHumanCore(ags[j])].name
    ELSE "Human"
HumanNameUI(ags) ==
    IF \E i \in 1..Len(ags) : IsHumanUI(ags[i])
    THEN ags[CHOOSE i \in 1..Len(ags) :
                 IsHumanUI(ags[i]) /\ \A j \in 1..(i - 1) : ~IsHumanUI(ags[j])].name
    ELSE "Human"

\* the for loop of ChatSession.run as it would be without the isinstance test
NextAutoCore_NoSkip(ags, i) == i + 1

\* The for loop with its "continue": the first position after i whose agent is
\* not skipped, Len(ags) + 1 when the loop is over.
NextAutoCore(ags, i) ==
    IF \E j \in (i + 1)..Len(ags) : ~IsHumanCore(ags[j])
    THEN CHOOSE j \in (i + 1)..Len(ags) :
             ~IsHumanCore(ags[j]) /\ \A k \in (i + 1)..(j - 1) : IsHumanCore(ags[k])
    ELSE Len(ags) + 1
NextAutoUI(ags, i) ==
    IF \E j \in (i + 1)..Len(ags) : ~IsHumanUI(ags[j])
    THEN CHOOSE j \in (i + 1)..Len(ags) :
             ~IsHumanUI(ags[j]) /\ \A k \in (i + 1)..(j - 1) : IsHumanUI(ags[k])
    ELSE Len(ags) + 1

\* process_message(self.history[-1]) in ChatSession.run
IncomingCore(h) == h[Len(h)]
\* the incoming message of TerminalUI.run as it would be with history[-1]
IncomingUI_Newest(h) == h[Len(h)]
\* process_message(self.session.history[-2]) in TerminalUI.run
IncomingUI(h) == h[Len(h) - 1]
\* self.session.history.pop()
Pop(h) == SubSeq(h, 1, Len(h) - 1)

----------------------------------------------------------------------------
\* Inputs

\* (name, class) of the agents the embedding code may register
Templates ==
    {[name |-> "A", kind |-> "auto"], [name |-> "B", kind |-> "auto"],
     [name |-> "Human", kind |-> "core_human"], [name |-> "Human", kind |-> "ui_human"]}

\* what a human types: exit tokens in several letter cases, and texts that are not
ExitInputs == {<<"e", "x", "i", "t">>, <<"Q", "u", "i", "t">>, <<"B", "Y", "E">>}
OtherInputs == {<<"h", "i">>, <<"b", "y", "e", "s">>}
HumanInputs == ExitInputs \cup OtherInputs

InitialPrompts == {<<"h", "i">>}

\* what process_message returns: the provider's text for an automated agent (a
\* different text at every turn n), the typed line for a human agent class the
\* running loop does not recognise
Replies(a, n) ==
    IF a.kind = "auto" THEN {<<"reply ", ToString(n)>>} ELSE {<<"b", "y", "e">>}

\* str(e) of an exception raised by process_message
Reasons == {"boom"}

OldText == <<"o", "l", "d">>

\* records of a history file: complete, without timestamp, with timestamp 0,
\* without sender, without content
Items ==
    {JObject([sender |-> "A", content |-> OldText, timestamp |-> 1]),
     JObject([sender |-> "A", content |-> OldText]),
     JObject([sender |-> "A", content |-> OldText, timestamp |-> 0]),
     JObject([content |-> OldText, timestamp |-> 1]),
     JObject([sender |-> "A", timestamp |-> 1])}

Arrays == UNION {[1..k -> Items] : k \in 0..MaxFileLen}

\* files from_history may be given
Files ==
    {Absent, NotJson, JsonFile("number", <<>>), JsonFile("object", <<>>),
     JsonFile("object", <<JString("a")>>), JsonFile("string", <<>>)}
    \cup {JsonFile("array", a) : a \in Arrays}

\* the file a chat is resumed from (main.py --load)
RunFiles ==
    {JsonFile("array", <<JObject([sender |-> "Human", content |-> OldText, timestamp |-> 1])>>)}

----------------------------------------------------------------------------
\* State

NoMsg == [none |-> TRUE]
NoCall == [reg |-> 0, result |-> "none"]

\* ChatSession.__init__; nothing saved, nothing loaded, no call made
Init ==
    /\ agents = <<>>
    /\ history = <<>>
    /\ pc = "setup"
    /\ idx = 0
    /\ turns = 0
    /\ now = 1
    /\ file = Absent
    /\ saves = 0
    /\ regs = <<>>
    /\ mode = "none"
    /\ msgs = 0
    /\ call = NoCall
    /\ contrib = NoMsg
    /\ order = <<>>
    /\ rendered = <<>>
    /\ loaded = [op |-> "none"]
    /\ human = [event |-> "none"]

\* ChatSession.add_message
add_message(m) ==
    /\ history' = Append(history, m)
    /\ agents' = UpdateContexts(agents, m)

\* ChatSession.save_history, writing h
save_history(h) ==
    /\ file' = dump(h)
    /\ saves' = saves + 1

\* the call of process_message on agent a with incoming message m: the request
\* is built from a.context[-10:] before the provider is awaited; the
\* process_message of a HumanAgent builds no request
Call(a, m) ==
    [reg |-> a.reg, name |-> a.name, incoming |-> m, context |-> RequestContext(a),
     request |-> IF a.kind = "auto" THEN BuildRequest(a, m) ELSE <<>>,
     result |-> "pending"]

\* the start of a round: the for loop over agents.items() begins
BeginRound ==
    /\ idx' = 0
    /\ order' = <<>>
    /\ contrib' = NoMsg

----------------------------------------------------------------------------
\* Embedding code before the loop (main.py)

\* session = ChatSession.from_history(args.load); an exception ends the program
FromHistory(f) ==
    /\ pc = "setup" /\ regs = <<>> /\ msgs = 0 /\ loaded.op = "none"
    /\ LET r == from_history(f, now)
       IN  /\ loaded' = [op |-> "load", src |-> f, at |-> now, ok |-> r.ok,
                         history |-> IF r.ok THEN r.history ELSE <<>>]
           /\ IF r.ok
              THEN history' = r.history /\ pc' = pc
              ELSE history' = history /\ pc' = "crashed"
    /\ UNCHANGED <<agents, idx, turns, now, file, saves, regs, mode, msgs, call, contrib,
                   order, rendered, human>>

\* session.add_agent(agent)
AddAgent(t) ==
    /\ pc = "setup" /\ Len(regs) < MaxRegs
    /\ agents' = add_agent(agents, AIAgent(t.name, t.kind, Len(regs) + 1))
    /\ regs' = Append(regs, t)
    /\ UNCHANGED <<history, pc, idx, turns, now, file, saves, mode, msgs, call, contrib,
                   order, rendered, loaded, human>>

\* session.add_message(Message(sender, content, timestamp))
AddMessage(sender, content, ts, bound) ==
    /\ pc = "setup" /\ msgs < bound
    /\ add_message(Message(sender, content, ts, now))
    /\ msgs' = msgs + 1
    /\ UNCHANGED <<pc, idx, turns, now, file, saves, regs, mode, call, contrib, order,
                   rendered, loaded, human>>

\* time passes
Tick ==
    /\ now < MaxNow
    /\ now' = now + 1
    /\ UNCHANGED <<agents, history, pc, idx, turns, file, saves, regs, mode, msgs, call,
                   contrib, order, rendered, loaded, human>>

\* session.save_history("chat_history.json") called on a session that is not run,
\* for the first time or again after a call that failed
SaveHistory ==
    /\ pc \in {"setup", "save_failed"}
    /\ save_history(history)
    /\ pc' = "done"
    /\ UNCHANGED <<agents, history, idx, turns, now, regs, mode, msgs, call, contrib,
                   order, rendered, loaded, human>>

\* save_history as it would be if it caught the error of open() and returned
SaveHistoryFails_Swallowed ==
    /\ pc = "setup"
    /\ saves' = saves + 1
    /\ pc' = "done"
    /\ UNCHANGED <<agents, history, idx, turns, now, file, regs, mode, msgs, call, contrib,
                   order, rendered, loaded, human>>

\* session.save_history(filename) when the destination is not writable: open()
\* raises OSError before anything is written; save_history has no handler, the
\* error reaches the caller
SaveHistoryFails ==
    /\ pc = "setup"
    /\ saves' = saves + 1
    /\ pc' = "save_failed"
    /\ UNCHANGED <<agents, history, idx, turns, now, file, regs, mode, msgs, call, contrib,
                   order, rendered, loaded, human>>

\* ChatSession.from_history("chat_history.json") after the session has ended
Reload ==
    /\ pc = "done" /\ loaded.op # "reload"
    /\ LET r == from_history(file, now)
       IN  loaded' = [op |-> "reload", src |-> file, at |-> now, ok |-> r.ok,
                      history |-> IF r.ok THEN r.history ELSE <<>>]
    /\ UNCHANGED <<agents, history, pc, idx, turns, now, file, saves, regs, mode, msgs,
                   call, contrib, order, rendered, human>>

----------------------------------------------------------------------------
\* ChatSession.run (console mode)

\* run(initial_prompt) up to the main loop: the initial message is appended
\* under the name of the first HumanAgent, "Human" when there is none
CoreStart(prompt) ==
    /\ pc = "setup"
    /\ add_message(Message(HumanNameCore(agents), prompt, NoTs, now))
    /\ pc' = "core_agents"
    /\ mode' = "core"
    /\ BeginRound
    /\ UNCHANGED <<turns, now, file, saves, regs, msgs, call, rendered, loaded, human>>

\* the for loop advances: the next agent that is not a HumanAgent is called with
\* history[-1]; after the last one the human agent, if any, is asked, and
\* without a human agent the while loop starts its next round
CoreNext ==
    /\ pc = "core_agents"
    /\ LET j == NextAutoCore(agents, idx)
       IN  IF j <= Len(agents)
           THEN /\ turns < MaxTurns
                /\ call' = Call(agents[j], IncomingCore(history))
                /\ idx' = j
                /\ order' = Append(order, agents[j].reg)
                /\ turns' = turns + 1
                /\ pc' = "core_await"
                /\ UNCHANGED contrib
           ELSE IF \E i \in 1..Len(agents) : IsHumanCore(agents[i])
           THEN /\ turns < MaxTurns
                /\ turns' = turns + 1
                /\ pc' = "core_input"
                /\ UNCHANGED <<idx, order, contrib, call>>
           ELSE /\ pc' = "core_agents"
                /\ BeginRound
                /\ UNCHANGED <<turns, call>>
    /\ UNCHANGED <<agents, history, now, file, saves, regs, mode, msgs, rendered, loaded, human>>

\* process_message returns: self.add_message(response)
CoreReply ==
    /\ pc = "core_await"
    /\ \E text \in Replies(agents[idx], turns) :
           LET m == Message(agents[idx].name, text, NoTs, now)
           IN  add_message(m) /\ contrib' = m
    /\ call' = [call EXCEPT !.result = "reply"]
    /\ pc' = "core_agents"
    /\ UNCHANGED <<idx, turns, now, file, saves, regs, mode, msgs, order, rendered,
                   loaded, human>>

\* process_message raises an Exception: run has no handler for it, the exception
\* leaves run and save_history is not reached
CoreRaise(reason) ==
    /\ pc = "core_await"
    /\ call' = [call EXCEPT !.result = "raise"] @@ [reason |-> reason]
    /\ pc' = "crashed"
    /\ UNCHANGED <<agents, history, idx, turns, now, file, saves, regs, mode, msgs,
                   contrib, order, rendered, loaded, human>>

\* KeyboardInterrupt while the agent is awaited: except KeyboardInterrupt, then
\* save_history
CoreInterrupt ==
    /\ pc = "core_await"
    /\ call' = [call EXCEPT !.result = "interrupt"]
    /\ save_history(history)
    /\ pc' = "done"
    /\ UNCHANGED <<agents, history, idx, turns, now, regs, mode, msgs, contrib,
                   order, rendered, loaded, human>>

\* the human agent returns the typed line: it is appended, then tested against
\* the exit tokens; break leads to save_history
CoreHumanInput(text) ==
    /\ pc = "core_input"
    /\ LET m == Message(HumanNameCore(agents), text, NoTs, now)
       IN  /\ add_message(m)
           /\ human' = [event |-> "text", text |-> text]
           /\ IF IsExit(text)
              THEN /\ pc' = "done"
                   /\ save_history(Append(history, m))
                   /\ UNCHANGED <<idx, order, contrib>>
              ELSE /\ pc' = "core_agents"
                   /\ BeginRound
                   /\ UNCHANGED <<file, saves>>
    /\ UNCHANGED <<turns, now, regs, mode, msgs, call, rendered, loaded>>

\* KeyboardInterrupt while input() waits
CoreHumanInterrupt ==
    /\ pc = "core_input"
    /\ human' = [event |-> "interrupt"]
    /\ save_history(history)
    /\ pc' = "done"
    /\ UNCHANGED <<agents, history, idx, turns, now, regs, mode, msgs, call, contrib,
                   order, rendered, loaded>>

----------------------------------------------------------------------------
\* TerminalUI.run

\* run(stdscr) up to the first get_user_input, which draws the messages
UIStart ==
    /\ pc = "setup"
    /\ add_message(Message("System", WelcomeText, NoTs, now))
    /\ rendered' = history'
    /\ turns' = turns + 1
    /\ pc' = "ui_input"
    /\ mode' = "ui"
    /\ UNCHANGED <<idx, now, file, saves, regs, msgs, call, contrib, order,
                   loaded, human>>

\* get_user_input returns: an exit token appends the goodbye message, draws,
\* breaks and saves; any other text is appended under the human's name and the
\* for loop over the agents starts
UIInput(text) ==
    /\ pc = "ui_input"
    /\ human' = [event |-> "text", text |-> text]
    /\ IF IsExit(text)
       THEN LET m == Message("System", GoodbyeText, NoTs, now)
            IN  /\ add_message(m)
                /\ rendered' = history'
                /\ save_history(Append(history, m))
                /\ pc' = "done"
                /\ UNCHANGED <<idx, order, contrib>>
       ELSE /\ add_message(Message(HumanNameUI(agents), text, NoTs, now))
            /\ pc' = "ui_agents"
            /\ BeginRound
            /\ UNCHANGED <<rendered, file, saves>>
    /\ UNCHANGED <<turns, now, regs, mode, msgs, call, loaded>>

\* KeyboardInterrupt while get_user_input waits
UIInputInterrupt ==
    /\ pc = "ui_input"
    /\ human' = [event |-> "interrupt"]
    /\ save_history(history)
    /\ pc' = "done"
    /\ UNCHANGED <<agents, history, idx, turns, now, regs, mode, msgs, call, contrib,
                   order, rendered, loaded>>

\* the for loop advances: for the next agent that is not a HumanAgent the
\* thinking message is appended and drawn and the agent is called with
\* history[-2]; after the last one the loop returns to get_user_input
UINext ==
    /\ pc = "ui_agents"
    /\ LET j == NextAutoUI(agents, idx)
       IN  IF j <= Len(agents)
           THEN LET m == Message("System", ThinkingText(agents[j].name), NoTs, now)
                IN  /\ turns < MaxTurns
                    /\ turns' = turns + 1
                    /\ add_message(m)
                    /\ rendered' = history'
                    /\ call' = Call(agents'[j], IncomingUI(history'))
                    /\ idx' = j
                    /\ order' = Append(order, agents[j].reg)
                    /\ pc' = "ui_await"
           ELSE /\ turns < MaxTurns
                /\ turns' = turns + 1
                /\ pc' = "ui_input"
                /\ rendered' = history
                /\ UNCHANGED <<agents, history, idx, order, call>>
    /\ UNCHANGED <<now, file, saves, regs, mode, msgs, contrib, loaded, human>>

\* process_message returns: history.pop(), add_message(response)
UIReply ==
    /\ pc = "ui_await"
    /\ \E text \in Replies(agents[idx], turns) :
           LET m == Message(agents[idx].name, text, NoTs, now)
           IN  /\ history' = Append(Pop(history), m)
               /\ agents' = UpdateContexts(agents, m)
               /\ contrib' = m
    /\ call' = [call EXCEPT !.result = "reply"]
    /\ pc' = "ui_agents"
    /\ UNCHANGED <<idx, turns, now, file, saves, regs, mode, msgs, order, rendered,
                   loaded, human>>

\* the except branch as it would be without history.pop()
UIRaise_KeepsPlaceholder(reason) ==
    /\ pc = "ui_await"
    /\ LET m == Message("System", ErrorText(agents[idx].name, reason), NoTs, now)
       IN  /\ add_message(m)
           /\ contrib' = m
    /\ call' = [call EXCEPT !.result = "raise"] @@ [reason |-> reason]
    /\ pc' = "ui_agents"
    /\ UNCHANGED <<idx, turns, now, file, saves, regs, mode, msgs, order, rendered,
                   loaded, human>>

\* process_message raises an Exception: history.pop(), add_message(error_message)
UIRaise(reason) ==
    /\ pc = "ui_await"
    /\ LET m == Message("System", ErrorText(agents[idx].name, reason), NoTs, now)
       IN  /\ history' = Append(Pop(history), m)
           /\ agents' = UpdateContexts(agents, m)
           /\ contrib' = m
    /\ call' = [call EXCEPT !.result = "raise"] @@ [reason |-> reason]
    /\ pc' = "ui_agents"
    /\ UNCHANGED <<idx, turns, now, file, saves, regs, mode, msgs, order, rendered,
                   loaded, human>>

\* the interrupt of an agent call in TerminalUI.run as it would be if it were
\* not caught: it leaves run and nothing is saved
UIInterrupt_Propagates ==
    /\ pc = "ui_await"
    /\ call' = [call EXCEPT !.result = "interrupt"]
    /\ pc' = "crashed"
    /\ UNCHANGED <<agents, history, idx, turns, now, file, saves, regs, mode, msgs,
                   contrib, order, rendered, loaded, human>>

\* KeyboardInterrupt while the agent is awaited: it is no Exception, the inner
\* handler does not run, the outer one passes, save_history follows
UIInterrupt ==
    /\ pc = "ui_await"
    /\ call' = [call EXCEPT !.result = "interrupt"]
    /\ save_history(history)
    /\ pc' = "done"
    /\ UNCHANGED <<agents, history, idx, turns, now, regs, mode, msgs, contrib,
                   order, rendered, loaded, human>>

----------------------------------------------------------------------------
\* Specifications

\* A session set up by the embedding code and run in console mode or in the
\* terminal UI. The clock stands still here; SpecPersist moves it.
Next ==
    \/ \E f \in RunFiles : FromHistory(f)
    \/ \E t \in Templates : AddAgent(t)
    \/ AddMessage("Human", OldText, NoTs, MaxSetupMsgs)
    \/ \E p \in InitialPrompts : CoreStart(p)
    \/ CoreNext
    \/ CoreReply
    \/ \E r \in Reasons : CoreRaise(r)
    \/ CoreInterrupt
    \/ \E text \in HumanInputs : CoreHumanInput(text)
    \/ CoreHumanInterrupt
    \/ UIStart
    \/ \E text \in HumanInputs : UIInput(text)
    \/ UIInputInterrupt
    \/ UINext
    \/ UIReply
    \/ \E r \in Reasons : UIRaise(r)
    \/ UIInterrupt

Spec == Init /\ [][Next]_vars

\* what the embedding code may pass to Message(...): timestamp left out, 0, or a time
TsInputs == {NoTs, 0, 1, 7}

\* A session that is only filled, saved and loaded again: from_history on any
\* file, add_message with any timestamp, save_history (which may fail and be
\* called again), from_history of the saved file, while time passes.
NextPersist ==
    \/ \E f \in Files : FromHistory(f)
    \/ \E sender \in {"Human", "A"} : \E content \in {OldText, <<>>} : \E ts \in TsInputs :
           AddMessage(sender, content, ts, MaxPersistMsgs)
    \/ Tick
    \/ SaveHistory
    \/ SaveHistoryFails
    \/ Reload

SpecPersist == Init /\ [][NextPersist]_vars

----------------------------------------------------------------------------
\* Vocabulary of the properties

IsPrefix(s, t) == Len(s) <= Len(t) /\ \A i \in 1..Len(s) : s[i] = t[i]
Last(s) == s[Len(s)]
Contains(s, m) == \E i \in 1..Len(s) : s[i] = m
InFlight == pc \in {"core_await", "ui_await"}

\* the agent object that add_agent call number r registered
RegName(r) == regs[r].name

\* a System diagnostic that names the agent and the failure reason
IsDiagnostic(m, name) ==
    /\ m.sender = "System"
    /\ \E r \in Reasons : m.content = ErrorText(name, r)

\* text equals token up to letter case, without reference to str.lower()
UpperChar(c) ==
    CASE c = "e" -> "E" [] c = "x" -> "X" [] c = "i" -> "I" [] c = "t" -> "T"
      [] c = "q" -> "Q" [] c = "u" -> "U" [] c = "b" -> "B" [] c = "y" -> "Y"
      [] OTHER -> c
EqualsIgnoringCase(text, token) ==
    /\ Len(text) = Len(token)
    /\ \A i \in 1..Len(token) : text[i] \in {token[i], UpperChar(token[i])}
IsExitToken(text) == \E token \in ExitTokens : EqualsIgnoringCase(text, token)

----------------------------------------------------------------------------
\* C1. Failure containment in ChatSession.run: when process_message of an
\* automated agent raises, the loop goes on with the next agent and the history
\* ends with a System message that names the agent and the reason.
C1_FailureContained ==
    (mode = "core" /\ call.result = "raise" /\ agents[idx].kind = "auto") =>
        /\ pc = "core_agents"
        /\ history # <<>>
        /\ IsDiagnostic(Last(history), call.name)

C3_ExitTerminates ==
    /\ [][(pc = "core_input" /\ human'.event = "text") =>
            IF IsExitToken(human'.text)
            THEN pc' = "done" /\ saves' = 1 /\ call' = call /\ turns' = turns
            ELSE pc' = "core_agents" /\ saves' = 0]_vars
    /\ [][(pc = "done" /\ mode = "core") =>
            (pc' = "done" /\ saves' = saves /\ call' = call /\ history' = history)]_vars

\* C3 witness: BYE typed in console mode ended the session with one save.
C3_Witness ==
    /\ mode = "core" /\ pc = "done" /\ saves = 1
    /\ human.event = "text" /\ human.text = <<"B", "Y", "E">>
    /\ call.result = "reply"

\* C4. The exit token that ends the session is in the saved history as the
\* last message, under the human's name, in ChatSession.run and in
\* TerminalUI.run.
C4_ExitMessageRecorded ==
    (pc = "done" /\ human.event = "text" /\ IsExitToken(human.text)) =>
        /\ history # <<>>
        /\ Last(history).content = human.text
        /\ Last(history).sender =
               (IF mode = "core" THEN HumanNameCore(agents) ELSE HumanNameUI(agents))
        /\ file = dump(history)

\* C5. Append-only history: every step keeps the history it found as a prefix
\* of the history it leaves, and what the UI drew stays a prefix of the history.
C5_AppendOnly ==
    /\ [][IsPrefix(history, history')]_vars
    /\ [](IsPrefix(rendered, history))

\* C6. Context window equals the history tail: at every call of an automated
\* agent the context of the request is the last min(10, L) messages of the
\* session history.
C6_ContextIsHistoryTail ==
    (InFlight /\ agents[idx].kind = "auto") =>
        call.context = LastN(history, ContextWindow)

\* C7. Round trip: a non-empty history saved by save_history and loaded by
\* from_history comes back with the same length and, at every index, the same
\* sender, content and timestamp.
C7_RoundTrip ==
    (loaded.op = "reload" /\ history # <<>>) =>
        /\ loaded.ok
        /\ Len(loaded.history) = Len(history)
        /\ \A i \in 1..Len(history) :
               /\ loaded.history[i].sender = history[i].sender
               /\ loaded.history[i].content = history[i].content
               /\ loaded.history[i].timestamp = history[i].timestamp

\* C7 witness: a history of two messages, one created with timestamp 7 and one
\* stamped by the clock at time 1, was saved and loaded back at time 2.
C7_Witness ==
    /\ loaded.op = "reload" /\ loaded.ok
    /\ Len(history) = 2
    /\ history[1].timestamp = 7
    /\ history[2].timestamp = 1
    /\ loaded.at = 2
    /\ file = dump(history)

\* a history file in the persisted format: an array of objects that all have
\* sender and content
WellFormed(f) ==
    /\ f.kind = "json"
    /\ f.type = "array"
    /\ \A i \in 1..Len(f.items) :
           /\ f.items[i].type = "object"
           /\ {"sender", "content"} \subseteq DOMAIN f.items[i].val
Malformed(f) == f.kind # "absent" /\ ~WellFormed(f)

\* C8. from_history on a file that does not exist returns a session with empty
\* history and no agents and no error; on a file that exists and is malformed
\* it raises instead of returning a session.
C8_AbsentVersusMalformed ==
    (loaded.op = "load" /\ regs = <<>> /\ msgs = 0) =>
        /\ loaded.src = Absent =>
               (loaded.ok /\ pc # "crashed" /\ history = <<>> /\ agents = <<>>)
        /\ Malformed(loaded.src) => (~loaded.ok /\ pc = "crashed")

\* the record lacks sender or content
LacksRequired(item) == ~({"sender", "content"} \subseteq DOMAIN item.val)

\* C9. Per-record load rule: a record without timestamp loads with the time of
\* the load as its timestamp; a record without sender or without content, at
\* any position, makes the load raise, and the caller gets no session (none
\* that holds the records before the bad one either).
C9_PerRecordLoadRule ==
    (loaded.op = "load" /\ loaded.src.kind = "json" /\ loaded.src.type = "array") =>
        LET items == loaded.src.items
        IN  IF \E i \in 1..Len(items) : LacksRequired(items[i])
            THEN ~loaded.ok /\ pc = "crashed" /\ history = <<>> /\ loaded.history = <<>>
            ELSE /\ loaded.ok
                 /\ pc # "crashed"
                 /\ Len(loaded.history) = Len(items)
                 /\ IsPrefix(loaded.history, history)
                 /\ \A i \in 1..Len(items) :
                        /\ loaded.history[i].sender = items[i].val.sender
                        /\ loaded.history[i].content = items[i].val.content
                        /\ "timestamp" \notin DOMAIN items[i].val =>
                               loaded.history[i].timestamp = loaded.at

\* C9 witness: a load at time 2 of two records, the first complete but for its
\* timestamp, the second without content, has raised.
C9_Witness ==
    /\ loaded.op = "load" /\ ~loaded.ok /\ pc = "crashed"
    /\ loaded.at = 2
    /\ loaded.src.kind = "json" /\ loaded.src.type = "array"
    /\ Len(loaded.src.items) = 2
    /\ DOMAIN loaded.src.items[1].val = {"sender", "content"}
    /\ DOMAIN loaded.src.items[2].val = {"sender", "timestamp"}

\* the first and the last add_agent call made with name n
FirstReg(n) ==
    CHOOSE r \in 1..Len(regs) : regs[r].name = n /\ \A q \in 1..(r - 1) : regs[q].name # n
LastReg(n) ==
    CHOOSE r \in 1..Len(regs) :
        regs[r].name = n /\ \A q \in (r + 1)..Len(regs) : regs[q].name # n

\* the class is the human class of the loop that runs the session
SkippedIn(m, kind) ==
    \/ m = "core" /\ kind = "core_human"
    \/ m = "ui" /\ kind = "ui_human"

\* the last-registered agent of every name, the names in the order of their
\* first registration, without the agents the running loop skips
RECURSIVE TurnOrderFrom(_, _)
TurnOrderFrom(r, m) ==
    IF r > Len(regs) THEN <<>>
    ELSE LET n == regs[r].name
             l == LastReg(n)
         IN  (IF FirstReg(n) = r /\ ~SkippedIn(m, regs[l].kind) THEN <<l>> ELSE <<>>)
                 \o TurnOrderFrom(r + 1, m)

RoundOver == pc = "core_input" \/ (pc = "ui_input" /\ human.event = "text")

\* C10 (as claimed). An agent registered under a name already in use takes its
\* turn at the position of its own, later, registration: the agents of a round
\* are called in the order of their add_agent calls.
C10_OwnRegistrationOrder ==
    \A i, j \in 1..Len(order) : i < j => order[i] < order[j]

\* C10 (amended). In every round the agents called are the last-registered
\* agent of each name, in the order in which the names were first registered,
\* the same in every round.
C10_TurnOrder ==
    (mode # "none") =>
        /\ IsPrefix(order, TurnOrderFrom(1, mode))
        /\ RoundOver => order = TurnOrderFrom(1, mode)
        /\ InFlight => call.reg = Last(order) /\ agents[idx].reg = call.reg

\* C10 witness: A, B, A were registered; in the second round of console mode
\* the second A has been called first and B is being called.
C10_Witness ==
    /\ mode = "core" /\ pc = "core_await"
    /\ Len(regs) = 3 /\ regs[1] = regs[3] /\ regs[1].kind = "auto" /\ regs[2].kind = "auto"
    /\ order = <<3, 2>>
    /\ turns = 4

----------------------------------------------------------------------------
\* Cancellation

\* a KeyboardInterrupt arrives in this step, at an agent call or at a human input
Interrupted ==
    \/ InFlight /\ call'.result = "interrupt"
    \/ pc \in {"core_input", "ui_input"} /\ human'.event = "interrupt"

\* C11. Cancellation: a KeyboardInterrupt at an agent call or at a human input,
\* in ChatSession.run and in TerminalUI.run, ends the loop without a further
\* agent call; save_history runs exactly once and writes every message appended
\* so far; run does not crash, and nothing is called or saved afterwards.
C11_Cancellation ==
    /\ [][Interrupted =>
            /\ pc' = "done"
            /\ saves = 0 /\ saves' = 1
            /\ history' = history
            /\ file' = dump(history)
            /\ turns' = turns
            /\ call'.reg = call.reg]_vars
    /\ [][(pc = "done" /\ mode # "none") =>
            (pc' = "done" /\ saves' = saves /\ turns' = turns /\ file' = file)]_vars

\* C11 witness: in the terminal UI the second agent of a round was interrupted
\* while it was awaited; the session is done and saved once, the file holding
\* all of the history.
C11_Witness ==
    /\ mode = "ui" /\ pc = "done"
    /\ call.result = "interrupt"
    /\ Len(order) = 2
    /\ saves = 1
    /\ file = dump(history)
    /\ Len(history) >= 4

----------------------------------------------------------------------------
\* Persistence failure

\* C12. Persistence failure: a save_history that fails hands the error to its
\* caller (it is neither swallowed nor retried: the call ends as failed, and
\* nothing was written), leaves the history and the agents as they were, and a
\* later save_history to a writable destination writes the full history; a
\* session counts as saved only when the file holds its history.
C12_SaveFailureSurfaced ==
    /\ [][(pc # "save_failed" /\ pc' = "save_failed") =>
            /\ saves' = saves + 1
            /\ history' = history
            /\ agents' = agents
            /\ file' = file]_vars
    /\ [][(pc = "save_failed" /\ pc' # "save_failed") =>
            /\ pc' = "done"
            /\ history' = history
            /\ file' = dump(history)
            /\ saves' = saves + 1]_vars
    /\ [](pc = "done" => file = dump(history))

\* C12 witness: a history of two messages was saved at the second attempt, the
\* first having failed.
C12_Witness ==
    /\ pc = "done"
    /\ saves = 2
    /\ Len(history) = 2
    /\ file = dump(history)

----------------------------------------------------------------------------
\* The request of an agent

\* the call in flight is the process_message of an automated agent
AutoCall == InFlight /\ agents[idx].kind = "auto"

\* C13. Role-flattening: in the request process_message builds, the context
\* messages follow the system prompt in their order, one entry each; an entry
\* has the self role (model for Gemini, assistant for Llama) exactly when its
\* message's sender is the agent's name and the role user otherwise, and its
\* text is the sender, ": " and the content of the message.
C13_RoleFlattening ==
    AutoCall =>
        LET ctx == call.context
            req == call.request
        IN  /\ Len(req) = Len(ctx) + 2
            /\ \A i \in 1..Len(ctx) :
                   /\ req[i + 1].role \in {"model", "assistant", "user"}
                   /\ req[i + 1].role \in {"model", "assistant"} <=> ctx[i].sender = call.name
                   /\ req[i + 1].role # "user" =>
                          req[i + 1].role = (IF call.name = "A" THEN "model" ELSE "assistant")
                   /\ req[i + 1].text = <<ctx[i].sender, ": ">> \o ctx[i].content

\* C13 witness: agent A is called in the terminal UI with a context that holds
\* messages of A, of B, of Human and of System.
C13_Witness ==
    /\ pc = "ui_await"
    /\ call.name = "A" /\ agents[idx].kind = "auto"
    /\ \A s \in {"A", "B", "Human", "System"} :
           \E i \in 1..Len(call.context) : call.context[i].sender = s
    /\ \E i \in 1..Len(call.context) : call.request[i + 1].role = "model"

----------------------------------------------------------------------------
\* Sessions without automated agents

\* agents are registered and every one is a HumanAgent of ai_group_chat.py
OnlyHumanCore == agents # <<>> /\ \A i \in 1..Len(agents) : IsHumanCore(agents[i])

\* C14. Zero automated agents: in ChatSession.run with only a human agent
\* registered no agent is ever called; a round goes from its start to the human
\* turn without touching the history; the human turn appends exactly the
\* human's message, under the human's name; an exit token ends the session with
\* one save_history of the whole history, any other text starts the next round.
C14_ZeroAutomated ==
    [][(mode = "core" /\ OnlyHumanCore) =>
         /\ call' = NoCall
         /\ order' = <<>>
         /\ pc = "core_agents" => (pc' = "core_input" /\ history' = history)
         /\ (pc = "core_input" /\ human'.event = "text") =>
                /\ Len(history') = Len(history) + 1
                /\ IsPrefix(history, history')
                /\ Last(history').sender = HumanNameCore(agents)
                /\ Last(history').content = human'.text
                /\ IF IsExitToken(human'.text)
                   THEN pc' = "done" /\ saves' = 1 /\ file' = dump(history')
                   ELSE pc' = "core_agents" /\ saves' = 0]_vars

\* C14 witness: with only the human registered, a first round ended on a text
\* that is no exit token and the second on "exit"; the session is saved.
C14_Witness ==
    /\ mode = "core" /\ OnlyHumanCore
    /\ pc = "done" /\ saves = 1
    /\ call = NoCall
    /\ turns = 2
    /\ human.event = "text" /\ human.text = <<"e", "x", "i", "t">>
    /\ history[Len(history) - 1].content = <<"b", "y", "e", "s">>

----------------------------------------------------------------------------
\* Sequential rounds

\* this step starts a process_message call
CallStarts == call'.result = "pending" /\ call.result # "pending"
\* this step ends the call of an automated agent with its reply or its
\* contained failure
CallEnds ==
    /\ InFlight /\ agents[idx].kind = "auto"
    /\ call'.result \in {"reply", "raise"} /\ pc' # "crashed"

\* C15. Sequential rounds: a call is in flight only as the pending call of the
\* agent the loop stands at, and no call starts while one is in flight; the
\* second and every later call of a round starts after the previous call has
\* ended and its contribution is the last message of the history; between two
\* consecutive calls the history is written exactly once: the step that ends a
\* call appends the contribution to the history it found, and the step that
\* starts the next call does not write the history.
C15_SequentialRounds ==
    /\ [](InFlight => (call.result = "pending" /\ agents[idx].reg = call.reg))
    /\ [][CallStarts => ~InFlight]_vars
    /\ [][(CallStarts /\ Len(order') >= 2) =>
            /\ call.result \in {"reply", "raise"}
            /\ contrib # NoMsg
            /\ Last(history) = contrib
            /\ history' = history]_vars
    /\ [][CallEnds => history' = Append(history, contrib')]_vars

\* the statement of C15 for ChatSession.run alone
C15_CoreOnly ==
    /\ [][(mode = "core" /\ CallStarts /\ Len(order') >= 2) =>
            /\ call.result \in {"reply", "raise"}
            /\ Last(history) = contrib
            /\ history' = history]_vars
    /\ [][(mode = "core" /\ CallEnds) => history' = Append(history, contrib')]_vars

----------------------------------------------------------------------------
\* Console mode started from main.py

\* the session main.py builds and runs with --no-ui: the configured automated
\* agents, then the HumanAgent of terminal_ui.py, then ChatSession.run
MainConsole ==
    /\ mode = "core"
    /\ regs # <<>>
    /\ regs[Len(regs)].kind = "ui_human"
    /\ \A r \in 1..(Len(regs) - 1) : regs[r].kind = "auto"

\* C16. Console mode started from main.py: the human agent main registers is
\* not called in the per-round loop over the automated agents, and a text of
\* exit, quit or bye it returns ends the session with a save_history of the
\* whole history.
C16_ConsoleHumanTurn ==
    MainConsole =>
        /\ ~(InFlight /\ agents[idx].kind = "ui_human")
        /\ (Len(history) > 1 /\ Last(history).sender = "Human"
                /\ IsExitToken(Last(history).content)) =>
               (pc = "done" /\ saves = 1 /\ file = dump(history))

----------------------------------------------------------------------------
\* Contributions of a round in TerminalUI.run

\* m is the thinking message of the agent called name
IsThinking(m, name) == m.sender = "System" /\ m.content = ThinkingText(name)

\* m is what the agent called name contributes: its reply, or the System
\* message of its failure
IsContribution(m, name) == m.sender = name \/ IsDiagnostic(m, name)

\* the round of TerminalUI.run that the last typed text started
InUIRound ==
    /\ mode = "ui"
    /\ human.event = "text"
    /\ pc \in {"ui_agents", "ui_await", "ui_input"}

\* C17. In TerminalUI.run each automated agent contributes exactly one message
\* per round. At any point of a round the history ends with the human's text,
\* then one contribution (reply or diagnostic) of every agent whose call has
\* ended, in call order, then the thinking message of the agent being called, if
\* any. The step that ends a call finds that thinking message last, removes it
\* and appends the reply under the agent's name (success) or the diagnostic with
\* the agent's name and the reason (Exception), and the loop goes on: the next
\* step calls the following agent of the round, or the round is over.
C17_OneContributionPerAgent ==
    /\ [](InUIRound =>
            LET pending == IF pc = "ui_await" THEN 1 ELSE 0
                ended == Len(order) - pending
                base == Len(history) - pending - ended
            IN  /\ base >= 1
                /\ history[base].sender = HumanNameUI(agents)
                /\ history[base].content = human.text
                /\ \A i \in 1..ended : IsContribution(history[base + i], RegName(order[i]))
                /\ pending = 1 => IsThinking(Last(history), call.name)
                /\ pc = "ui_input" => order = TurnOrderFrom(1, "ui"))
    /\ [][(pc = "ui_await" /\ call'.result \in {"reply", "raise"}) =>
            /\ IsThinking(Last(history), call.name)
            /\ history' = Append(Pop(history), contrib')
            /\ call'.result = "reply" => contrib'.sender = call.name
            /\ call'.result = "raise" =>
                   (contrib'.sender = "System"
                        /\ contrib'.content = ErrorText(call.name, call'.reason))
            /\ pc' = "ui_agents"]_vars
    /\ [][(pc = "ui_agents" /\ pc' # "ui_agents") =>
            IF Len(order) < Len(TurnOrderFrom(1, "ui"))
            THEN pc' = "ui_await" /\ call'.reg = TurnOrderFrom(1, "ui")[Len(order) + 1]
            ELSE pc' = "ui_input"]_vars

\* C17 witness: a round of two automated agents is over; the first one raised
\* and the second one replied; the history ends with the human's text, the
\* diagnostic of the first and the reply of the second.
C17_Witness ==
    /\ mode = "ui" /\ pc = "ui_input" /\ human.event = "text"
    /\ Len(order) = 2
    /\ regs[order[1]].kind = "auto" /\ regs[order[2]].kind = "auto"
    /\ IsDiagnostic(history[Len(history) - 1], RegName(order[1]))
    /\ Last(history).sender = RegName(order[2])
    /\ history[Len(history) - 2].content = human.text

----------------------------------------------------------------------------
\* Thinking messages

\* m is the thinking message of some agent
IsPlaceholder(m) == \E t \in Templates : IsThinking(m, t.name)

\* C18. Thinking messages are never durable: when TerminalUI.run has ended, by
\* an exit token or by a KeyboardInterrupt at any point, the history that
\* save_history wrote holds no thinking message; and the context of an
\* automated agent never holds one.
C18_NoDurablePlaceholder ==
    /\ (mode = "ui" /\ pc = "done") =>
           /\ file = dump(history)
           /\ \A i \in 1..Len(history) : ~IsPlaceholder(history[i])
    /\ mode = "ui" =>
           \A a \in 1..Len(agents) :
               agents[a].kind = "auto" =>
                   \A i \in 1..Len(agents[a].context) : ~IsPlaceholder(agents[a].context[i])

----------------------------------------------------------------------------
\* Timestamps

\* C19. A Message keeps the timestamp it is given: a message added as
\* Message(sender, content, t) with a number t, 0 included, has timestamp t, and
\* with the timestamp left out it has the current time; a record loaded from a
\* file has the number of its timestamp field, 0 included, and the time of the
\* load only when it has no such field.
C19_TimestampKept ==
    /\ [][\A sender \in {"Human", "A"} : \A content \in {OldText, <<>>} : \A t \in TsInputs :
             AddMessage(sender, content, t, MaxPersistMsgs) =>
                 Last(history').timestamp = (IF t = NoTs THEN now ELSE t)]_vars
    /\ []((loaded.op = "load" /\ loaded.ok /\ loaded.src.kind = "json"
              /\ loaded.src.type = "array") =>
             \A i \in 1..Len(loaded.src.items) :
                 loaded.history[i].timestamp =
                     (IF "timestamp" \in DOMAIN loaded.src.items[i].val
                      THEN loaded.src.items[i].val.timestamp
                      ELSE loaded.at))

----------------------------------------------------------------------------
\* Registration of human agents

\* the agents of Templates and a HumanAgent constructed with a name of its own:
\* HumanAgent(name="Bob")
AllTemplates == Templates \cup {[name |-> "Bob", kind |-> "core_human"]}

\* Any sequence of add_agent calls, then ChatSession.run.
NextAgents ==
    \/ \E t \in AllTemplates : AddAgent(t)
    \/ \E p \in InitialPrompts : CoreStart(p)
    \/ CoreNext
    \/ CoreReply
    \/ \E text \in HumanInputs : CoreHumanInput(text)
    \/ CoreHumanInterrupt

SpecAgents == Init /\ [][NextAgents]_vars

\* the registered agents that are human agents, of either HumanAgent class
Humans == {i \in 1..Len(agents) : agents[i].kind # "auto"}

\* C20. After any sequence of add_agent calls at most one registered agent is
\* a human agent, and every other registered agent is automated: at the human
\* turn of a round of ChatSession.run each of them has been called.
C20_AtMostOneHuman ==
    /\ Cardinality(Humans) <= 1
    /\ pc = "core_input" =>
           \A i \in 1..Len(agents) :
               i \notin Humans => \E k \in 1..Len(order) : order[k] = agents[i].reg

----------------------------------------------------------------------------
\* Progress of ChatSession.run

\* what the human types in the runs checked for progress
LiveInputs == {<<"e", "x", "i", "t">>, <<"h", "i">>}

\* the automated agents of the session as ChatSession.run sees them
NumAutoCore == Cardinality({i \in 1..Len(agents) : ~IsHumanCore(agents[i])})

\* the human turn of ChatSession.run; a text that is no exit token is typed
\* only while the turns left allow the round it starts to reach the next human
\* turn, so that the human does enter an exit token in the end
LiveHumanInput(text) ==
    /\ IsExit(text) \/ turns + NumAutoCore + 1 <= MaxTurns
    /\ CoreHumanInput(text)

\* ChatSession.run in which no agent call fails
NextLive ==
    \/ \E t \in Templates : AddAgent(t)
    \/ \E p \in InitialPrompts : CoreStart(p)
    \/ CoreNext
    \/ CoreReply
    \/ CoreInterrupt
    \/ \E text \in LiveInputs : LiveHumanInput(text)
    \/ CoreHumanInterrupt

\* every awaited agent call returns, the loop goes on, and the human asked for
\* input types a line
SpecLive ==
    /\ Init /\ [][NextLive]_vars
    /\ WF_vars(CoreNext)
    /\ WF_vars(CoreReply)
    /\ WF_vars(\E text \in LiveInputs : LiveHumanInput(text))

\* a HumanAgent of ai_group_chat.py is registered
HasHumanCore == \E i \in 1..Len(agents) : agents[i].kind = "core_human"

\* the agents ChatSession.run calls in a round, by registration number
CoreRound == TurnOrderFrom(1, "core")

\* C21. ChatSession.run repeats rounds until an exit token or a cancellation.
\* At every human turn all automated agents have been called in the round, and
\* a human text that is no exit token starts a new round, which calls them all
\* again before the next human turn. With a human agent registered, who in the
\* end enters an exit token, run reaches save_history. Without a human agent a
\* finished round is followed by the next round with no human turn, and
\* save_history is reached only by a KeyboardInterrupt.
C21_RoundsRepeat ==
    /\ [](pc = "core_input" => order = CoreRound)
    /\ [][(pc = "core_input" /\ human'.event = "text" /\ ~IsExitToken(human'.text)) =>
            (pc' = "core_agents" /\ order' = <<>> /\ saves' = 0)]_vars
    /\ [][(pc = "core_agents" /\ Len(order) < Len(CoreRound)) =>
            (pc' = "core_await" /\ call'.reg = CoreRound[Len(order) + 1])]_vars
    /\ (mode = "core" /\ HasHumanCore) ~> (pc = "done" /\ saves = 1)
    /\ [][(mode = "core" /\ ~HasHumanCore /\ pc = "core_agents"
              /\ Len(order) = Len(CoreRound)) =>
            (pc' = "core_agents" /\ order' = <<>> /\ saves' = 0)]_vars
    /\ []((mode = "core" /\ ~HasHumanCore) =>
            /\ pc # "core_input"
            /\ human.event = "none"
            /\ saves > 0 => call.result = "interrupt")

\* C21 witness: with an automated agent and a human registered, the human
\* typed a text that is no exit token, the agent was called again in the second
\* round, and the human then ended the session with exit.
C21_Witness ==
    /\ mode = "core" /\ HasHumanCore
    /\ pc = "done" /\ saves = 1
    /\ Len(CoreRound) >= 1
    /\ turns = 2 * (Len(CoreRound) + 1)
    /\ human.event = "text" /\ human.text = <<"e", "x", "i", "t">>
    /\ call.result = "reply"

----------------------------------------------------------------------------
\* The incoming message in the request

\* C22 (as claimed). In the request of an automated agent every message
\* appears at most once: the incoming message is none of the context entries
\* placed before it.
C22_EachMessageOnce ==
    AutoCall => ~Contains(call.context, call.incoming)

\* C22 (amended). The incoming message is always one of the context entries as
\* well, so the request holds it twice: in ChatSession.run it is the last entry
\* of the context and the last two entries of the request carry its text; in
\* TerminalUI.run it is the entry before the last one, which is the thinking
\* message of the called agent, and the request ends with the incoming
\* message, the thinking message and the incoming message again.
C22_IncomingTwice ==
    AutoCall =>
        LET ctx == call.context
            req == call.request
            n == Len(req)
            text == <<call.incoming.sender, ": ">> \o call.incoming.content
        IN  /\ n = Len(ctx) + 2
            /\ req[n].role = "user" /\ req[n].text = text
            /\ IF mode = "core"
               THEN /\ Len(ctx) >= 1
                    /\ Last(ctx) = call.incoming
                    /\ req[n - 1].text = text
               ELSE /\ Len(ctx) >= 2
                    /\ ctx[Len(ctx) - 1] = call.incoming
                    /\ IsThinking(Last(ctx), call.name)
                    /\ req[n - 2].text = text
                    /\ req[n - 1].text = <<"System", ": ">> \o ThinkingText(call.name)

\* C22 witness: in console mode the second automated agent of a round is
\* called with the first one's reply, which is also the last entry of its
\* context.
C22_Witness ==
    /\ pc = "core_await" /\ agents[idx].kind = "auto"
    /\ Len(order) = 2
    /\ call.incoming = contrib
    /\ contrib.sender = RegName(order[1])
    /\ Last(call.context) = call.incoming
    /\ Len(call.request) >= 4

====
